---- MODULE Spec2Model ----
(***************************************************************************)
(* Model of backend/app: the upload-image and structured-query handlers of *)
(* routes_llm.py over the tables of models.py and the blob store of        *)
(* storage.py.                                                             *)
(*                                                                         *)
(* Each request runs in its own database session; the handlers take one    *)
(* step per blocking call (database query, blob put, model call, commit),  *)
(* and requests served by different workers interleave between steps.      *)
(* The relational store enforces the unique constraints of models.py at    *)
(* commit; a violated constraint raises IntegrityError in the handler,     *)
(* and an exception no handler catches is answered with status 500.        *)
(***************************************************************************)
EXTENDS Integers, Sequences, FiniteSets, TLC

\* ---------------------------------------------------------------- bounds
\* requests made in all, uploads and queries together
MaxRequests == 3

Users == {"u1", "u2"}

\* the uploads tried: (current_user, file bytes, file.content_type)
UploadInputs ==
  { [user |-> "u1", data |-> "", content_type |-> "image/png"],
    [user |-> "u1", data |-> "x", content_type |-> "image/png"],
    [user |-> "u1", data |-> "x", content_type |-> "None"],
    [user |-> "u2", data |-> "x", content_type |-> "image/png"] }

\* texts are sequences of characters
Prompts == { << "p" >> }
FieldLists == { << [name |-> << "a" >>, type |-> "number"] >> }

UploadIds == 1..MaxRequests
QueryIds == 1..MaxRequests

\* an image identity no upload ever allocates
NoSuchImage == 0 - 1
\* payload.image_id is None
NoImage == 0

\* pure holds the arguments and results of the functions checked on their own
VARIABLES images, blobs, cache, nextUuid, nextCacheId, up, sq, last, pure

vars == <<images, blobs, cache, nextUuid, nextCacheId, up, sq, last, pure>>

\* ------------------------------------------------------------ JSON values
\* A Python value produced by json.loads: its type and its canonical text
\* (the text json.dumps gives back).
JsonVal(t, c) == [t |-> t, c |-> c]
Unset == JsonVal("unset", "")
PyNone == JsonVal("null", "null")

\* completion.choices[0].message.content: a str, or a list of text parts
StrContent(s) == [choices |-> TRUE, kind |-> "str", parts |-> <<s>>]
PartsContent(ps) == [choices |-> TRUE, kind |-> "parts", parts |-> ps]
NoChoices == [choices |-> FALSE, kind |-> "none", parts |-> <<>>]

\* what the external model may answer
ModelOutputs ==
  { NoChoices,
    StrContent(""),
    StrContent("{\"a\":1}"),
    StrContent("[1]"),
    StrContent("null"),
    StrContent("hello"),
    PartsContent(<< "{\"a\":", " 2}" >>) }

RECURSIVE join(_)
\* "".join(text_parts)
join(ps) == IF ps = <<>> THEN "" ELSE Head(ps) \o join(Tail(ps))

RECURSIVE parts_dumps(_)
parts_dumps(ps) ==
  IF ps = <<>> THEN ""
  ELSE "{\"type\": \"text\", \"text\": \"" \o Head(ps) \o "\"}"
       \o (IF Len(ps) > 1 THEN ", " ELSE "") \o parts_dumps(Tail(ps))

\* json.dumps of the message content itself
content_dumps(out) ==
  IF out.kind = "str" THEN "\"" \o out.parts[1] \o "\""
  ELSE "[" \o parts_dumps(out.parts) \o "]"

\* the {"raw": raw_message_content} dict built when decoding fails
raw_wrap(out) == JsonVal("dict", "{\"raw\": " \o content_dumps(out) \o "}")

\* json.loads: the value of a JSON text; ok = FALSE is JSONDecodeError
json_loads(text) ==
  CASE text = "{\"a\": 1}"  -> [ok |-> TRUE, val |-> JsonVal("dict", "{\"a\": 1}")]
    [] text = "{\"a\":1}"   -> [ok |-> TRUE, val |-> JsonVal("dict", "{\"a\": 1}")]
    [] text = "{\"a\": 2}"  -> [ok |-> TRUE, val |-> JsonVal("dict", "{\"a\": 2}")]
    [] text = "[1]"         -> [ok |-> TRUE, val |-> JsonVal("list", "[1]")]
    [] text = "null"        -> [ok |-> TRUE, val |-> PyNone]
    [] \E o \in ModelOutputs : o.choices /\ text = raw_wrap(o).c
                            -> [ok |-> TRUE, val |-> JsonVal("dict", text)]
    [] OTHER                -> [ok |-> FALSE, val |-> Unset]

\* json.dumps of a value json.loads (or the fallback) produced
json_dumps(val) == val.c

\* pydantic: StructuredQueryResponse.result is Dict[str, Any]
ResultIsDict(val) == val.t = "dict"

\* ---------------------------------------------------------------- hashing
\* storage.hash_bytes: SHA-256, taken as injective on the inputs modelled
hash_bytes(data) == << "sha256", data >>

\* image_hash is None
NoHash == << >>

\* the characters of a field type
TypeChars(t) ==
  CASE t = "string"  -> << "s", "t", "r", "i", "n", "g" >>
    [] t = "number"  -> << "n", "u", "m", "b", "e", "r" >>
    [] OTHER         -> << "b", "o", "o", "l", "e", "a", "n" >>

RECURSIVE escape(_)
\* json.dumps of a str escapes the quote and the backslash
escape(s) ==
  IF s = << >> THEN << >>
  ELSE (IF Head(s) \in {"\"", "\\"} THEN << "\\", Head(s) >> ELSE << Head(s) >>)
       \o escape(Tail(s))

\* a str written between quotes as it is
str_dumps_unescaped(s) == << "\"" >> \o s \o << "\"" >>

\* json.dumps of a str
str_dumps(s) == << "\"" >> \o escape(s) \o << "\"" >>

\* json.dumps of f.model_dump(): {"name": ..., "type": ...}
field_dumps(f) ==
  << "{", "\"", "n", "a", "m", "e", "\"", ":", " " >> \o str_dumps(f.name)
  \o << ",", " ", "\"", "t", "y", "p", "e", "\"", ":", " " >> \o str_dumps(TypeChars(f.type)) \o << "}" >>

RECURSIVE fields_dumps(_)
\* json.dumps of the list of fields, in input order
fields_dumps(fields) ==
  IF fields = << >> THEN << >>
  ELSE field_dumps(Head(fields))
       \o (IF Len(fields) > 1 THEN << ",", " " >> ELSE << >>)
       \o fields_dumps(Tail(fields))

\* json.dumps of image_hash: null, or the hex digest as a str
image_hash_dumps(image_hash) ==
  IF image_hash = NoHash THEN << "n", "u", "l", "l" >> ELSE str_dumps(image_hash)

\* json.dumps(key_payload, sort_keys=True): keys in sorted order
key_payload_dumps(prompt, fields, image_hash) ==
  << "{", "\"", "f", "i", "e", "l", "d", "s", "\"", ":", " ", "[" >> \o fields_dumps(fields)
  \o << "]", ",", " ", "\"", "i", "m", "a", "g", "e", "_", "h", "a", "s", "h", "\"", ":", " " >> \o image_hash_dumps(image_hash)
  \o << ",", " ", "\"", "p", "r", "o", "m", "p", "t", "\"", ":", " " >> \o str_dumps(prompt) \o << "}" >>

cache_key_of(prompt, fields, image_hash) ==
  hash_bytes(key_payload_dumps(prompt, fields, image_hash))

\* ------------------------------------------------------------------ state
NoUploadResp == [status |-> 0, image_id |-> 0, object_key |-> 0, mime_type |-> "", detail |-> ""]
NoQueryResp == [status |-> 0, result |-> Unset, cached |-> FALSE, detail |-> ""]

IdleUpload ==
  [pc |-> "idle", user |-> "", data |-> "", content_type |-> "", content_hash |-> NoHash,
   object_key |-> 0, before |-> {}, seen |-> {}, puts |-> 0, inserted |-> FALSE,
   conflict |-> FALSE,
   resp |-> NoUploadResp]

IdleQuery ==
  [pc |-> "idle", user |-> "", prompt |-> << >>, fields |-> << >>, image_id |-> NoImage,
   image_hash |-> NoHash, cache_key |-> NoHash, row_id |-> 0, loaded |-> "",
   out |-> NoChoices, result_json |-> Unset, after |-> 0, img |-> {}, seen |-> {},
   blob_reads |-> 0, lookups |-> 0, builds |-> 0, calls |-> 0, writes |-> 0,
   conflict |-> FALSE,
   resp |-> NoQueryResp]

Init ==
  /\ images = {}
  /\ blobs = {}
  /\ cache = {}
  /\ nextUuid = 1
  /\ nextCacheId = 1
  /\ up = [r \in UploadIds |-> IdleUpload]
  /\ sq = [q \in QueryIds |-> IdleQuery]
  /\ last = 0
  /\ pure = [kind |-> "none"]

\* ----------------------------------------------------------- the tables
\* the table without its unique constraint
uq_user_hash_off(rows, row) == TRUE

\* uq_user_hash: UniqueConstraint("user_id", "content_hash")
uq_user_hash(rows, row) ==
  ~\E i \in rows : i.user_id = row.user_id /\ i.content_hash = row.content_hash

\* the column without unique=True
uq_cache_key_off(rows, row) == TRUE

\* Image.object_key: unique=True
uq_object_key(rows, row) ==
  ~\E i \in rows : i.object_key = row.object_key

\* QueryCache.cache_key: unique=True
uq_cache_key(rows, row) ==
  ~\E c \in rows : c.cache_key = row.cache_key

\* the dedup lookup with the owner comparison inverted
images_of_other_owner(rows, user, h) ==
  {i \in rows : i.user_id # user /\ i.content_hash = h}

\* db.query(Image).filter(user_id == ..., content_hash == ...)
images_of(rows, user, h) ==
  {i \in rows : i.user_id = user /\ i.content_hash = h}

\* db.query(QueryCache).filter(cache_key == ...)
cached_rows(rows, key) == {c \in rows : c.cache_key = key}

\* the ownership test left out
image_not_found_no_owner(found, user) == found = {}

\* image is None or image.user_id != current_user.id
image_not_found(found, user) ==
  found = {} \/ \E i \in found : i.user_id # user

\* content_type or "application/octet-stream"
blob_content_type(content_type) ==
  IF content_type = "None" THEN "application/octet-stream" ELSE content_type

\* db.add(row) without db.commit(): the row is lost with the session
db_add_uncommitted(rows, row) == rows

\* db.add(row); db.commit() of a row the constraints admit
db_add_commit(rows, row) == rows \cup {row}

\* requests of a kind are numbered in the order they arrive
Arrives(reqs, r) ==
  /\ reqs[r].pc = "idle" /\ (IF r = 1 THEN TRUE ELSE reqs[r - 1].pc # "idle")
  /\ Cardinality({p \in UploadIds : up[p].pc # "idle"})
       + Cardinality({p \in QueryIds : sq[p].pc # "idle"}) < MaxRequests

UploadOk(image) ==
  [status |-> 200, image_id |-> image.id, object_key |-> image.object_key,
   mime_type |-> image.mime_type, detail |-> ""]
UploadError(code, detail) ==
  [status |-> code, image_id |-> 0, object_key |-> 0, mime_type |-> "", detail |-> detail]

\* ----------------------------------------------------------- upload_image
\* read the file, hash it and look for the caller's row with that hash
upload_image_lookup(r) ==
  /\ Arrives(up, r)
  /\ \E input \in UploadInputs :
       LET user == input.user
           data == input.data
           content_type == input.content_type
           content_hash == hash_bytes(data)
           existing == images_of(images, user, content_hash)
           req == [up[r] EXCEPT !.user = user, !.data = data,
                                !.content_type = content_type,
                                !.before = {p \in UploadIds : up[p].pc = "done"},
                                !.seen = IF data = "" THEN {} ELSE existing]
       IN  up' = [up EXCEPT ![r] =
             IF data = ""
             THEN [req EXCEPT !.pc = "done",
                              !.resp = UploadError(400, "Empty file upload")]
             ELSE IF existing # {}
             THEN [req EXCEPT !.pc = "done", !.content_hash = content_hash,
                              !.resp = UploadOk(CHOOSE i \in existing : TRUE)]
             ELSE [req EXCEPT !.pc = "put", !.content_hash = content_hash]]
  /\ last' = 0
  /\ UNCHANGED <<images, blobs, cache, nextUuid, nextCacheId, sq, pure>>

\* a key made from the content instead of a fresh uuid
new_object_key_of_content(data, uuid) == IF data = "x" THEN 1001 ELSE 1002

\* object_key = f"images/{uuid.uuid4()}"
new_object_key(data, uuid) == uuid

\* the write to the object store left out
put_object_skipped(objects, object_key, data, content_type) == objects

\* client.put_object(bucket, object_key, data, ...)
put_object(objects, object_key, data, content_type) ==
  objects \cup {[object_key |-> object_key, data |-> data,
                 content_type |-> blob_content_type(content_type)]}

\* storage.upload_image_bytes: put the blob under a fresh key
upload_image_put(r) ==
  /\ up[r].pc = "put"
  /\ LET object_key == new_object_key(up[r].data, nextUuid)
     IN  /\ blobs' = put_object(blobs, object_key, up[r].data, up[r].content_type)
         /\ up' = [up EXCEPT ![r].pc = "commit", ![r].object_key = object_key,
                             ![r].puts = @ + 1]
  /\ nextUuid' = nextUuid + 1
  /\ last' = 0
  /\ UNCHANGED <<images, cache, nextCacheId, sq, pure>>

\* db.add(image); db.commit(); db.refresh(image); return
upload_image_commit(r) ==
  /\ up[r].pc = "commit"
  /\ LET image == [id |-> nextUuid, user_id |-> up[r].user,
                   object_key |-> up[r].object_key,
                   mime_type |-> up[r].content_type,
                   content_hash |-> up[r].content_hash]
     IN  IF uq_user_hash(images, image) /\ uq_object_key(images, image)
         THEN /\ images' = db_add_commit(images, image)
              /\ nextUuid' = nextUuid + 1
              /\ up' = [up EXCEPT ![r].pc = "done", ![r].inserted = TRUE,
                                  ![r].resp = UploadOk(image)]
         ELSE /\ up' = [up EXCEPT ![r].pc = "done", ![r].conflict = TRUE,
                                  ![r].resp = UploadError(500, "IntegrityError")]
              /\ UNCHANGED <<images, nextUuid>>
  /\ last' = 0
  /\ UNCHANGED <<blobs, cache, nextCacheId, sq, pure>>

\* ------------------------------------------------------ build_json_schema
FieldTypes == {"string", "number"}

\* the branch that raises left out: any other type is passed on as it is
build_json_schema_lenient(fields) ==
  [ok |-> TRUE,
   properties |->
     [n \in {fields[i].name : i \in 1..Len(fields)} |->
        LET lastIdx == CHOOSE i \in 1..Len(fields) :
                         /\ fields[i].name = n
                         /\ \A j \in 1..Len(fields) : fields[j].name = n => j <= i
        IN  fields[lastIdx].type],
   required |-> [i \in 1..Len(fields) |-> fields[i].name],
   additionalProperties |-> FALSE]

\* a property once set is not set again: the first field of a name wins
build_json_schema_first_wins(fields) ==
  IF \E i \in 1..Len(fields) : fields[i].type \notin FieldTypes
  THEN [ok |-> FALSE, properties |-> << >>, required |-> << >>,
        additionalProperties |-> FALSE]
  ELSE [ok |-> TRUE,
        properties |->
          [n \in {fields[i].name : i \in 1..Len(fields)} |->
             LET firstIdx == CHOOSE i \in 1..Len(fields) :
                               /\ fields[i].name = n
                               /\ \A j \in 1..Len(fields) :
                                    fields[j].name = n => i <= j
             IN  fields[firstIdx].type],
        required |-> [i \in 1..Len(fields) |-> fields[i].name],
        additionalProperties |-> FALSE]

\* properties[f.name] = {"type": f.type} in input order, required.append
build_json_schema(fields) ==
  IF \E i \in 1..Len(fields) : fields[i].type \notin FieldTypes
  THEN [ok |-> FALSE, properties |-> << >>, required |-> << >>,
        additionalProperties |-> FALSE]
  ELSE [ok |-> TRUE,
        properties |->
          [n \in {fields[i].name : i \in 1..Len(fields)} |->
             LET lastIdx == CHOOSE i \in 1..Len(fields) :
                              /\ fields[i].name = n
                              /\ \A j \in 1..Len(fields) :
                                   fields[j].name = n => j <= i
             IN  fields[lastIdx].type],
        required |-> [i \in 1..Len(fields) |-> fields[i].name],
        additionalProperties |-> FALSE]

\* ---------------------------------------------------- get_or_create_cache
\* (cached_result, cache_row): the row is the stored one on a hit and a new,
\* not yet added one (row_id 0, response_json "") otherwise
get_or_create_cache(rows, prompt, fields, image_hash) ==
  LET cache_key == cache_key_of(prompt, fields, image_hash)
      cached == cached_rows(rows, cache_key)
  IN  IF cached # {}
      THEN LET c == CHOOSE c \in cached : TRUE
               loaded == json_loads(c.response_json)
           IN  [ok |-> loaded.ok, cached_result |-> loaded.val, row_id |-> c.id,
                response_json |-> c.response_json, cache_key |-> cache_key]
      ELSE [ok |-> TRUE, cached_result |-> PyNone, row_id |-> 0,
            response_json |-> "", cache_key |-> cache_key]

\* a lookup that never takes the cached branch
is_hit_never(cached_result) == FALSE

\* if cached_result is not None
is_hit(cached_result) == cached_result # PyNone

QueryError(code, detail) ==
  [status |-> code, result |-> Unset, cached |-> FALSE, detail |-> detail]

\* schemas.StructuredQueryResponse(result=..., cached=...): a result that is
\* not a dict fails validation, and the request ends with status 500
StructuredQueryResponse(result, cached) ==
  IF ResultIsDict(result)
  THEN [status |-> 200, result |-> result, cached |-> cached, detail |-> ""]
  ELSE QueryError(500, "ValidationError")

\* -------------------------------------------------------- structured_query
\* payload.fields: a validated list, or the list handed to build_json_schema
\* when that function is checked on its own
QueryFieldLists == IF pure.kind = "schema" THEN {pure.fields} ELSE FieldLists

\* the queries tried: (current_user, prompt, fields, image_id); an image that
\* exists is referenced by either user
QueryInputs(rows) ==
  { [user |-> u, prompt |-> p, fields |-> f, image_id |-> i] :
      u \in {"u1"}, p \in Prompts, f \in QueryFieldLists,
      i \in {NoImage, NoSuchImage} }
  \cup
  { [user |-> u, prompt |-> p, fields |-> f, image_id |-> i.id] :
      u \in Users, p \in Prompts, f \in QueryFieldLists, i \in rows }

\* image_hash = image.content_hash
image_hash_of(image) == image.content_hash

\* resolve the image, read its blob, look the fingerprint up
structured_query_lookup(q) ==
  /\ Arrives(sq, q)
  /\ \E input \in QueryInputs(images) :
       LET user == input.user
           prompt == input.prompt
           fields == input.fields
           image_id == input.image_id
           found == {i \in images : i.id = image_id}
           req == [sq[q] EXCEPT !.user = user, !.prompt = prompt,
                                !.fields = fields, !.image_id = image_id,
                                !.after = last, !.img = found]
       IN  IF image_id # NoImage /\ image_not_found(found, user)
           THEN /\ sq' = [sq EXCEPT ![q] =
                     [req EXCEPT !.pc = "done",
                                 !.resp = QueryError(404, "Image not found")]]
           ELSE
             LET image == CHOOSE i \in found : TRUE
                 stored == IF image_id = NoImage THEN {}
                           ELSE {b \in blobs : b.object_key = image.object_key}
                 image_hash == IF image_id = NoImage THEN NoHash
                               ELSE image_hash_of(image)
                 read == [req EXCEPT !.blob_reads =
                                        IF image_id = NoImage THEN 0 ELSE 1]
             IN  \E g \in {get_or_create_cache(cache, prompt, fields, image_hash)} :
                   LET looked == [read EXCEPT !.image_hash = image_hash,
                                              !.cache_key = g.cache_key,
                                              !.seen = {c.response_json :
                                                        c \in cached_rows(cache, g.cache_key)},
                                              !.lookups = 1]
                   IN  sq' = [sq EXCEPT ![q] =
                         IF image_id # NoImage /\ stored = {}
                         THEN [read EXCEPT !.pc = "done",
                                 !.resp = QueryError(500, "Error fetching image from storage")]
                         ELSE IF ~g.ok
                         THEN [looked EXCEPT !.pc = "done",
                                 !.resp = QueryError(500, "JSONDecodeError")]
                         ELSE IF is_hit(g.cached_result)
                         THEN [looked EXCEPT !.pc = "done",
                                 !.resp = StructuredQueryResponse(g.cached_result, TRUE)]
                         ELSE [looked EXCEPT !.pc = "miss", !.row_id = g.row_id,
                                 !.loaded = g.response_json]]
  /\ last' = IF sq'[q].pc = "done" THEN q ELSE 0
  /\ UNCHANGED <<images, blobs, cache, nextUuid, nextCacheId, up, pure>>

\* the emptiness test left out: whatever the model sent is decoded
content_never_empty(out) == FALSE

\* not raw_message_content
content_is_empty(out) ==
  \/ out.kind = "none"
  \/ out.kind = "str" /\ out.parts[1] = ""
  \/ out.kind = "parts" /\ out.parts = << >>

\* the text handed to json.loads
raw_content_text(out) ==
  IF out.kind = "str" THEN out.parts[1] ELSE join(out.parts)

\* try: json.loads(raw_content_text) except JSONDecodeError: {"raw": ...}
parse_result(out) ==
  LET parsed == json_loads(raw_content_text(out))
  IN  IF parsed.ok THEN parsed.val ELSE raw_wrap(out)

\* build the schema, call the model, decode what it answers
structured_query_invoke(q) ==
  /\ sq[q].pc = "miss"
  /\ IF ~build_json_schema(sq[q].fields).ok
     THEN sq' = [sq EXCEPT ![q].pc = "done",
                           ![q].resp = QueryError(500, "Unsupported field type")]
     ELSE \E out \in ModelOutputs :
            sq' = [sq EXCEPT ![q] =
              LET called == [sq[q] EXCEPT !.builds = @ + 1, !.calls = @ + 1,
                                          !.out = out]
              IN  IF ~out.choices
                  THEN [called EXCEPT !.pc = "done",
                          !.resp = QueryError(500, "No response from language model")]
                  ELSE IF content_is_empty(out)
                  THEN [called EXCEPT !.pc = "done",
                          !.resp = QueryError(500, "Empty response from language model")]
                  ELSE [called EXCEPT !.pc = "persist",
                          !.result_json = parse_result(out)]]
  /\ last' = IF sq'[q].pc = "done" THEN q ELSE 0
  /\ UNCHANGED <<images, blobs, cache, nextUuid, nextCacheId, up, pure>>

\* models.QueryCache(..., response_json=""): the row of a miss, not yet added
new_cache_row(id, cache_key, prompt, fields, image_hash) ==
  [id |-> id, cache_key |-> cache_key, prompt |-> prompt,
   field_schema_json |-> << "[" >> \o fields_dumps(fields) \o << "]" >>,
   image_hash |-> image_hash,
   response_json |-> ""]

\* the assignment left out: the row is added as it was made
set_response_json_forgotten(row, response_json) == row

\* cache_row.response_json = json.dumps(result_json)
set_response_json(row, response_json) ==
  [row EXCEPT !.response_json = response_json]

\* cache_row.response_json = json.dumps(result_json); db.add; db.commit;
\* return StructuredQueryResponse(result=result_json, cached=False)
structured_query_persist(q) ==
  /\ sq[q].pc = "persist"
  /\ LET response_json == json_dumps(sq[q].result_json)
         cache_row == set_response_json(
                        new_cache_row(nextCacheId, sq[q].cache_key, sq[q].prompt,
                                      sq[q].fields, sq[q].image_hash),
                        response_json)
         respond == StructuredQueryResponse(sq[q].result_json, FALSE)
     IN  IF sq[q].row_id = 0
         THEN \* a new row: INSERT
              IF uq_cache_key(cache, cache_row)
              THEN /\ cache' = db_add_commit(cache, cache_row)
                   /\ nextCacheId' = nextCacheId + 1
                   /\ sq' = [sq EXCEPT ![q].pc = "done", ![q].writes = @ + 1,
                                       ![q].resp = respond]
              ELSE /\ sq' = [sq EXCEPT ![q].pc = "done", ![q].conflict = TRUE,
                                       ![q].resp = QueryError(500, "IntegrityError")]
                   /\ UNCHANGED <<cache, nextCacheId>>
         ELSE \* the row loaded by the lookup: UPDATE when the attribute changed
              /\ cache' = IF response_json = sq[q].loaded THEN cache
                          ELSE {IF c.id = sq[q].row_id
                                THEN set_response_json(c, response_json)
                                ELSE c : c \in cache}
              /\ sq' = [sq EXCEPT ![q].pc = "done",
                                  ![q].writes = IF response_json = sq[q].loaded
                                                THEN @ ELSE @ + 1,
                                  ![q].resp = respond]
              /\ UNCHANGED nextCacheId
  /\ last' = q
  /\ UNCHANGED <<images, blobs, nextUuid, up, pure>>

Next ==
  \/ \E r \in UploadIds : upload_image_lookup(r)
  \/ \E r \in UploadIds : upload_image_put(r)
  \/ \E r \in UploadIds : upload_image_commit(r)
  \/ \E q \in QueryIds : structured_query_lookup(q)
  \/ \E q \in QueryIds : structured_query_invoke(q)
  \/ \E q \in QueryIds : structured_query_persist(q)

Spec == Init /\ [][Next]_vars

\* ------------------------------------------------------------ the claims
\* the model answered q with some content
Produced(q) ==
  sq[q].calls = 1 /\ sq[q].out.choices /\ ~content_is_empty(sq[q].out)

\* q looked its fingerprint up and found no row for it
MissedCold(q) == sq[q].lookups = 1 /\ sq[q].seen = {}

SameQuery(q1, q2) ==
  /\ sq[q1].user = sq[q2].user
  /\ sq[q1].prompt = sq[q2].prompt
  /\ sq[q1].fields = sq[q2].fields
  /\ sq[q1].image_id = sq[q2].image_id

\* C1: identical structured-query requests that all missed a cold cache and
\* whose model answers each decode to an object all end with a successful
\* response carrying one and the same result.
C1_ConcurrentMissesAgree ==
  \A q1 \in QueryIds, q2 \in QueryIds :
    ( /\ sq[q1].pc = "done" /\ sq[q2].pc = "done"
      /\ sq[q1].cache_key = sq[q2].cache_key
      /\ MissedCold(q1) /\ MissedCold(q2)
      /\ Produced(q1) /\ Produced(q2)
      /\ ResultIsDict(sq[q1].result_json) /\ ResultIsDict(sq[q2].result_json) )
    => /\ sq[q1].resp.status = 200
       /\ sq[q2].resp.status = 200
       /\ sq[q1].resp.result = sq[q2].resp.result

\* C2: a request whose insert meets an entry already stored for its
\* fingerprint does not fail: it ends with a successful response and the
\* stored entry is left as it was.
C2_ConflictRecovered ==
  \A q \in QueryIds :
    (sq[q].pc = "done" /\ sq[q].conflict /\ ResultIsDict(sq[q].result_json))
    => /\ sq[q].resp.status = 200
       /\ sq[q].writes = 0

\* C3: the cache never holds two entries with one fingerprint, and once a
\* request whose model call produced output has finished, it holds exactly
\* one entry for that request's fingerprint.
C3_OneEntryPerFingerprint ==
  /\ \A c1 \in cache, c2 \in cache : c1.cache_key = c2.cache_key => c1 = c2
  /\ \A q \in QueryIds :
       (sq[q].pc = "done" /\ Produced(q))
       => Cardinality(cached_rows(cache, sq[q].cache_key)) = 1

\* two identical requests both missed the cold cache, both got output, and
\* one entry is stored
C3_Witness ==
  \E q1 \in QueryIds, q2 \in QueryIds :
    /\ q1 # q2
    /\ sq[q1].pc = "done" /\ sq[q2].pc = "done"
    /\ sq[q1].cache_key = sq[q2].cache_key
    /\ MissedCold(q1) /\ MissedCold(q2)
    /\ Produced(q1) /\ Produced(q2)
    /\ Cardinality(cached_rows(cache, sq[q1].cache_key)) = 1

\* C4: an upload whose insert violates the (owner, content_hash) constraint
\* does not return an error: it answers with the identity and storage key of
\* the row that won.
C4_UploadConflictRecovered ==
  \A r \in UploadIds :
    (up[r].pc = "done" /\ up[r].conflict)
    => /\ up[r].resp.status = 200
       /\ \E i \in images_of(images, up[r].user, up[r].content_hash) :
            /\ up[r].resp.image_id = i.id
            /\ up[r].resp.object_key = i.object_key

\* C5: there are never two image rows with the same owner and content hash.
C5_OneRowPerOwnerAndHash ==
  \A i1 \in images, i2 \in images :
    (i1.user_id = i2.user_id /\ i1.content_hash = i2.content_hash) => i1 = i2

\* two uploads of the same bytes by one owner both missed the lookup and both
\* went on to the insert
C5_Witness ==
  \E r1 \in UploadIds, r2 \in UploadIds :
    /\ r1 # r2
    /\ up[r1].pc = "done" /\ up[r2].pc = "done"
    /\ up[r1].user = up[r2].user /\ up[r1].data = up[r2].data
    /\ up[r1].seen = {} /\ up[r2].seen = {}
    /\ up[r1].puts = 1 /\ up[r2].puts = 1
    /\ up[r1].inserted /\ up[r2].conflict
    /\ Cardinality(images_of(images, up[r1].user, up[r1].content_hash)) = 1

\* C6: a request answered with cached = false and followed at once by an
\* identical request: the second is answered with cached = true and the
\* result the first returned.
C6_RepeatIsServedFromCache ==
  \A q1 \in QueryIds, q2 \in QueryIds :
    ( /\ sq[q2].pc # "idle" /\ sq[q2].after = q1
      /\ SameQuery(q1, q2)
      /\ sq[q1].resp.status = 200 /\ ~sq[q1].resp.cached )
    => /\ sq[q2].pc = "done"
       /\ sq[q2].resp.status = 200
       /\ sq[q2].resp.cached
       /\ sq[q2].resp.result = sq[q1].resp.result
       /\ sq[q2].calls = 0

\* the second of two identical requests was served the first one's result,
\* which the model had given in a text json.dumps does not reproduce
C6_Witness ==
  \E q1 \in QueryIds, q2 \in QueryIds :
    /\ sq[q2].after = q1 /\ SameQuery(q1, q2)
    /\ sq[q1].resp.status = 200 /\ ~sq[q1].resp.cached
    /\ raw_content_text(sq[q1].out) # json_dumps(sq[q1].resp.result)
    /\ sq[q2].resp.status = 200 /\ sq[q2].resp.cached
    /\ sq[q2].resp.result = sq[q1].resp.result

\* C7 as stated: the external model is invoked at most once per fingerprint.
C7_OneCallPerFingerprint ==
  \A q1 \in QueryIds, q2 \in QueryIds :
    (sq[q1].calls > 0 /\ sq[q2].calls > 0 /\ sq[q1].cache_key = sq[q2].cache_key)
    => q1 = q2

\* C7: a request invokes the external model at most once, and only when its
\* lookup found no stored result other than JSON null for its fingerprint.
C7_CallsOnlyOnMiss ==
  \A q \in QueryIds :
    /\ sq[q].calls <= 1
    /\ sq[q].calls = 1 => (sq[q].lookups = 1 /\ sq[q].seen \subseteq {"null"})

\* two requests for one fingerprint have each invoked the model, and a
\* stored object was served without a call
C7_Witness ==
  \/ \E q1 \in QueryIds, q2 \in QueryIds :
       /\ q1 # q2 /\ sq[q1].cache_key = sq[q2].cache_key
       /\ sq[q1].calls = 1 /\ sq[q2].calls = 1
       /\ sq[q1].seen = {} /\ sq[q2].seen = {"null"}
       /\ sq[q2].pc = "done" /\ sq[q2].resp.status = 200

\* C8: an upload of bytes the same owner has uploaded before returns the
\* identity and storage key the earlier upload returned, writes no blob and
\* inserts no row, whatever media type it declares.
C8_SecondUploadIsDeduplicated ==
  \A r1 \in UploadIds, r2 \in UploadIds :
    ( /\ r1 \in up[r2].before
      /\ up[r1].user = up[r2].user /\ up[r1].data = up[r2].data
      /\ up[r1].resp.status = 200 )
    => /\ up[r2].pc = "done"
       /\ up[r2].resp.status = 200
       /\ up[r2].resp.image_id = up[r1].resp.image_id
       /\ up[r2].resp.object_key = up[r1].resp.object_key
       /\ up[r2].puts = 0
       /\ ~up[r2].inserted

\* the second upload declared another media type than the first
C8_Witness ==
  \E r1 \in UploadIds, r2 \in UploadIds :
    /\ r1 \in up[r2].before
    /\ up[r1].user = up[r2].user /\ up[r1].data = up[r2].data
    /\ up[r1].content_type # up[r2].content_type
    /\ up[r1].inserted
    /\ up[r2].resp.status = 200
    /\ up[r2].resp.image_id = up[r1].resp.image_id
    /\ Cardinality(blobs) = 1 /\ Cardinality(images) = 1

\* the referenced image was absent, or another user's, when q looked it up
ImageAbsent(q) == sq[q].image_id # NoImage /\ sq[q].img = {}
ImageForeign(q) ==
  sq[q].image_id # NoImage /\ \E i \in sq[q].img : i.user_id # sq[q].user

\* C9: a request referencing an image that does not exist or is another
\* user's ends with the same 404 answer in both cases, having read no blob,
\* looked up no fingerprint, invoked no model and written nothing.
C9_ForeignImageIsNotFound ==
  \A q \in QueryIds :
    (sq[q].pc # "idle" /\ (ImageAbsent(q) \/ ImageForeign(q)))
    => /\ sq[q].pc = "done"
       /\ sq[q].resp = QueryError(404, "Image not found")
       /\ sq[q].blob_reads = 0
       /\ sq[q].lookups = 0
       /\ sq[q].calls = 0
       /\ sq[q].writes = 0
       /\ sq[q].cache_key = NoHash

\* one request met an absent image and another a foreign one
C9_Witness ==
  \E q1 \in QueryIds, q2 \in QueryIds :
    /\ ImageAbsent(q1) /\ ImageForeign(q2)
    /\ sq[q1].resp = sq[q2].resp
    /\ sq[q1].resp.status = 404

\* the text of q's model answer is no JSON object
NotAnObject(q) ==
  LET parsed == json_loads(raw_content_text(sq[q].out))
  IN  ~parsed.ok \/ ~ResultIsDict(parsed.val)

\* C10: a model answer that is not a JSON object (no JSON at all, or a list,
\* a number, null) is wrapped: the request succeeds with the single-field
\* object holding the raw answer, and every stored entry can be served.
C10_FallbackWrapsEveryBadOutput ==
  /\ \A q \in QueryIds :
       (sq[q].pc = "done" /\ Produced(q) /\ NotAnObject(q) /\ ~sq[q].conflict)
       => /\ sq[q].resp.status = 200
          /\ sq[q].resp.result = raw_wrap(sq[q].out)
  /\ \A c \in cache : ResultIsDict(json_loads(c.response_json).val)

\* ------------------------------------------------- the fingerprint alone
\* a field name that spells the end of one field and the start of the next
QuotedName ==
  << "a", "\"", ",", " ", "\"", "t", "y", "p", "e", "\"", ":", " ", "\"", "s", "t", "r", "i", "n", "g", "\"", "}", ",", " ", "{", "\"", "n", "a", "m", "e", "\"", ":", " ", "\"", "b" >>

\* the requests fingerprinted: (prompt, fields, image_hash)
FpPrompts == { << "p" >>, << "q" >>, << "p", "\"" >> }
FpFieldLists ==
  { << >>,
    << [name |-> << "a" >>, type |-> "string"] >>,
    << [name |-> << "a" >>, type |-> "number"] >>,
    << [name |-> << "a" >>, type |-> "string"], [name |-> << "b" >>, type |-> "string"] >>,
    << [name |-> << "b" >>, type |-> "string"], [name |-> << "a" >>, type |-> "string"] >>,
    << [name |-> QuotedName, type |-> "string"] >> }
FpHashes == { NoHash, hash_bytes("x"), hash_bytes("y") }
FpInputs ==
  { [prompt |-> p, fields |-> f, image_hash |-> h] :
      p \in FpPrompts, f \in FpFieldLists, h \in FpHashes }

InitFp ==
  /\ images = {} /\ blobs = {} /\ cache = {}
  /\ nextUuid = 1 /\ nextCacheId = 1
  /\ up = [r \in UploadIds |-> IdleUpload]
  /\ sq = [q \in QueryIds |-> IdleQuery]
  /\ last = 0
  /\ \E a \in FpInputs, b \in FpInputs :
       pure = [kind |-> "fp", a |-> a, b |-> b, key_a |-> NoHash, key_b |-> NoHash,
               done |-> FALSE]

\* the cache_key get_or_create_cache computes for each of two requests
fingerprint_pair ==
  /\ ~pure.done
  /\ pure' = [pure EXCEPT
       !.key_a = cache_key_of(pure.a.prompt, pure.a.fields, pure.a.image_hash),
       !.key_b = cache_key_of(pure.b.prompt, pure.b.fields, pure.b.image_hash),
       !.done = TRUE]
  /\ UNCHANGED <<images, blobs, cache, nextUuid, nextCacheId, up, sq, last>>

NextFp == fingerprint_pair

SpecFp == InitFp /\ [][NextFp]_vars

\* C11: two requests get the same fingerprint exactly when their prompt,
\* their field sequence and their image hash (or its absence) are the same.
C11_FingerprintIffSameInputs ==
  pure.done => ((pure.key_a = pure.key_b) <=> (pure.a = pure.b))

\* fingerprints were told apart for reordered fields, for an absent against
\* a present image, and for a name that quotes the text of a second field
C11_Witness ==
  /\ pure.done
  /\ pure.key_a # pure.key_b
  /\ \/ /\ Len(pure.a.fields) = 2 /\ Len(pure.b.fields) = 2
        /\ pure.a.fields[1] = pure.b.fields[2] /\ pure.a.fields[2] = pure.b.fields[1]
        /\ pure.a.fields # pure.b.fields
        /\ pure.a.prompt = pure.b.prompt /\ pure.a.image_hash = pure.b.image_hash
     \/ /\ pure.a.image_hash = NoHash /\ pure.b.image_hash # NoHash
        /\ pure.a.prompt = pure.b.prompt /\ pure.a.fields = pure.b.fields
     \/ /\ Len(pure.a.fields) = 1 /\ pure.a.fields[1].name = QuotedName
        /\ Len(pure.b.fields) = 2
        /\ pure.a.prompt = pure.b.prompt /\ pure.a.image_hash = pure.b.image_hash

\* --------------------------------------------- build_json_schema alone
SchemaTypes == {"string", "number", "boolean"}
SchemaFields == { [name |-> n, type |-> t] : n \in { << "a" >>, << "b" >> }, t \in SchemaTypes }

\* the lists handed to build_json_schema: repeated names, unsupported types
SchemaFieldLists ==
  { << >> } \cup { << f >> : f \in SchemaFields }
  \cup { << f, g >> : f \in SchemaFields, g \in SchemaFields }

NoSchema == [ok |-> FALSE, properties |-> << >>, required |-> << >>,
             additionalProperties |-> FALSE]

InitSchema ==
  /\ images = {} /\ blobs = {} /\ cache = {}
  /\ nextUuid = 1 /\ nextCacheId = 1
  /\ up = [r \in UploadIds |-> IdleUpload]
  /\ sq = [q \in QueryIds |-> IdleQuery]
  /\ last = 0
  /\ \E fields \in SchemaFieldLists :
       pure = [kind |-> "schema", fields |-> fields, schema |-> NoSchema,
               done |-> FALSE]

\* json_schema = build_json_schema(fields)
schema_build ==
  /\ ~pure.done
  /\ pure' = [pure EXCEPT !.schema = build_json_schema(pure.fields), !.done = TRUE]
  /\ UNCHANGED <<images, blobs, cache, nextUuid, nextCacheId, up, sq, last>>

\* the function on its own, and one structured query made with the same list
NextSchema ==
  \/ schema_build
  \/ structured_query_lookup(1)
  \/ structured_query_invoke(1)
  \/ structured_query_persist(1)

SpecSchema == InitSchema /\ [][NextSchema]_vars

Names(fields) == {fields[i].name : i \in 1..Len(fields)}
Supported(fields) == \A i \in 1..Len(fields) : fields[i].type \in FieldTypes

\* the schema of a list of supported types: required and properties are the
\* input names, additional properties are disallowed
SchemaNamesRight ==
  /\ pure.schema.ok
  /\ {pure.schema.required[i] : i \in 1..Len(pure.schema.required)} = Names(pure.fields)
  /\ DOMAIN pure.schema.properties = Names(pure.fields)
  /\ pure.schema.additionalProperties = FALSE

\* C12 as stated: for every list of supported types, repeated names included,
\* required and properties are exactly the input names and every field finds
\* its property typed as it declares.
C12_EveryFieldTypedAsDeclared ==
  (pure.done /\ Supported(pure.fields))
  => /\ SchemaNamesRight
     /\ \A i \in 1..Len(pure.fields) :
          pure.schema.properties[pure.fields[i].name] = pure.fields[i].type

\* C12: for every list of supported types, repeated names included, required
\* and properties are exactly the input names and each property has the type
\* the last field of that name declares.
C12_LastFieldOfANameWins ==
  (pure.done /\ Supported(pure.fields))
  => /\ SchemaNamesRight
     /\ \A i \in 1..Len(pure.fields) :
          (\A j \in 1..Len(pure.fields) :
             pure.fields[j].name = pure.fields[i].name => j <= i)
          => pure.schema.properties[pure.fields[i].name] = pure.fields[i].type

\* a name declared twice with two types got the second one
C12_Witness ==
  /\ pure.done /\ Supported(pure.fields)
  /\ Len(pure.fields) = 2
  /\ pure.fields[1].name = pure.fields[2].name
  /\ pure.fields[1].type # pure.fields[2].type
  /\ pure.schema.properties[pure.fields[1].name] = pure.fields[2].type
  /\ Len(pure.schema.required) = 2

\* C13: build_json_schema fails, returning no schema, exactly when a field
\* has a type other than string and number; a structured query that missed
\* with such a field ends with that failure, no model call and no cache write.
C13_UnsupportedTypeIsRejected ==
  /\ pure.done => /\ pure.schema.ok <=> Supported(pure.fields)
                  /\ ~Supported(pure.fields) => pure.schema = NoSchema
  /\ \A q \in QueryIds :
       ~Supported(sq[q].fields)
       => /\ sq[q].pc \in {"miss", "done"}
          /\ sq[q].builds = 0 /\ sq[q].calls = 0 /\ sq[q].writes = 0
          /\ cache = {}
          /\ sq[q].pc = "done"
               => sq[q].resp \in {QueryError(500, "Unsupported field type"),
                                  QueryError(404, "Image not found")}

\* the function refused a list whose second field is unsupported, and a
\* query that had missed with that list ended with the failure
C13_Witness ==
  /\ pure.done /\ ~pure.schema.ok
  /\ Len(pure.fields) = 2 /\ pure.fields[1].type \in FieldTypes
  /\ sq[1].lookups = 1 /\ sq[1].seen = {}
  /\ sq[1].resp = QueryError(500, "Unsupported field type")
  /\ sq[1].calls = 0 /\ cache = {}

\* -------------------------------------------------------------- the cache
\* q looked its fingerprint up and got a stored result that is not None
HitStored(q) ==
  /\ sq[q].lookups = 1
  /\ \E text \in sq[q].seen : is_hit(json_loads(text).val)

\* C14: a request that hits the cache returns (result, cached = true) without
\* a model call, a schema build or a cache write; a request invokes the model
\* at most once, and only when its lookup missed.
C14_HitReturnsStoredResult ==
  \A q \in QueryIds :
    /\ HitStored(q)
       => /\ sq[q].pc = "done"
          /\ sq[q].resp.status = 200
          /\ sq[q].resp.cached
          /\ json_dumps(sq[q].resp.result) \in sq[q].seen
          /\ sq[q].calls = 0 /\ sq[q].builds = 0 /\ sq[q].writes = 0
    /\ sq[q].calls <= 1
    /\ sq[q].calls = 1 => (sq[q].lookups = 1 /\ ~HitStored(q))

\* C15: the cache is append-only: a stored entry is never removed and its
\* result never changes, whatever requests and model outputs follow.
C15_CacheIsAppendOnly ==
  [][\A c \in cache : c \in cache']_vars

\* C16: no stored entry has the placeholder's empty response_json, no lookup
\* ever read such an entry, and a pending placeholder is not among the rows.
C16_NoEmptyResultStored ==
  /\ \A c \in cache : c.response_json # ""
  /\ \A q \in QueryIds :
       /\ "" \notin sq[q].seen
       /\ (sq[q].pc \in {"miss", "persist"} /\ sq[q].row_id = 0)
          => \A c \in cache : c.id # nextCacheId

\* a request holds the placeholder of a fingerprint, not yet committed, and
\* another request has looked the same fingerprint up and seen no entry
C16_Witness ==
  \E q1 \in QueryIds, q2 \in QueryIds :
    /\ q1 < q2
    /\ sq[q1].pc = "persist" /\ sq[q1].row_id = 0
    /\ sq[q2].pc = "miss" /\ sq[q2].cache_key = sq[q1].cache_key
    /\ sq[q2].seen = {}
    /\ cached_rows(cache, sq[q1].cache_key) = {}

\* the model gave q no output at all: no choices, or an empty content
NoOutput(q) ==
  sq[q].calls = 1 /\ sq[q].out \in {NoChoices, StrContent("")}

\* C17: a request the model gave no output ends with a server-side error,
\* has called the model once and stored nothing; an identical request that
\* follows it, no other request having stored an entry for the fingerprint,
\* misses the cache and calls the model again.
C17_NoOutputFailsAndStoresNothing ==
  \A q \in QueryIds :
    NoOutput(q)
    => /\ sq[q].pc = "done"
       /\ sq[q].resp.status = 500
       /\ sq[q].calls = 1
       /\ sq[q].writes = 0
       /\ \A q2 \in QueryIds :
            ( /\ sq[q2].after = q /\ SameQuery(q, q2)
              /\ \A q3 \in QueryIds \ {q, q2} :
                   sq[q3].cache_key = sq[q].cache_key => sq[q3].writes = 0 )
            => /\ sq[q2].lookups = 1 /\ sq[q2].seen = {}
               /\ sq[q2].pc # "miss" => sq[q2].calls = 1

\* a request the model sent an empty content failed, and the identical
\* request after it missed and has been answered by the model
C17_Witness ==
  \E q \in QueryIds, q2 \in QueryIds :
    /\ sq[q].out = StrContent("") /\ sq[q].calls = 1
    /\ sq[q].resp = QueryError(500, "Empty response from language model")
    /\ sq[q2].after = q /\ SameQuery(q, q2)
    /\ sq[q2].seen = {} /\ sq[q2].calls = 1
    /\ sq[q2].resp.status = 200 /\ ~sq[q2].resp.cached
    /\ cached_rows(cache, sq[q].cache_key) # {}

\* ------------------------------------------- one image held by two owners
\* the tables after u1 and then u2 have each uploaded the bytes "x": every
\* upload took one uuid for its storage key and one for its row
SharedImages ==
  { [id |-> 2, user_id |-> "u1", object_key |-> new_object_key("x", 1),
     mime_type |-> "image/png", content_hash |-> hash_bytes("x")],
    [id |-> 4, user_id |-> "u2", object_key |-> new_object_key("x", 3),
     mime_type |-> "image/png", content_hash |-> hash_bytes("x")] }

SharedBlobs ==
  put_object(put_object({}, new_object_key("x", 1), "x", "image/png"),
             new_object_key("x", 3), "x", "image/png")

InitShared ==
  /\ images = SharedImages /\ blobs = SharedBlobs /\ cache = {}
  /\ nextUuid = 5 /\ nextCacheId = 1
  /\ up = [r \in UploadIds |-> IdleUpload]
  /\ sq = [q \in QueryIds |-> IdleQuery]
  /\ last = 0
  /\ pure = [kind |-> "none"]

\* one owner's request and the other's
SharedQueryIds == {q \in QueryIds : q <= Cardinality(SharedImages)}

\* structured queries over the two stored images
NextShared ==
  \/ \E q \in SharedQueryIds : structured_query_lookup(q)
  \/ \E q \in SharedQueryIds : structured_query_invoke(q)
  \/ \E q \in SharedQueryIds : structured_query_persist(q)

SpecShared == InitShared /\ [][NextShared]_vars

\* qa and qb ask the same thing of two images, each its asker's own, that
\* hold the same bytes
SameQuestionOwnImages(qa, qb) ==
  /\ sq[qa].user # sq[qb].user
  /\ sq[qa].prompt = sq[qb].prompt /\ sq[qa].fields = sq[qb].fields
  /\ sq[qa].image_id # sq[qb].image_id
  /\ \E ia \in images, ib \in images :
       /\ ia.id = sq[qa].image_id /\ ia.user_id = sq[qa].user
       /\ ib.id = sq[qb].image_id /\ ib.user_id = sq[qb].user
       /\ ia.content_hash = ib.content_hash

\* C18: after one owner's query has stored a result, another owner asking
\* the same prompt and fields of an image of the own with the same bytes is
\* answered cached = true with the stored result and without a model call.
C18_StoredResultServedToOtherOwner ==
  \A qa \in QueryIds, qb \in QueryIds :
    ( /\ sq[qb].pc # "idle" /\ sq[qb].after = qa
      /\ SameQuestionOwnImages(qa, qb)
      /\ sq[qa].writes > 0 )
    => /\ sq[qb].pc = "done"
       /\ sq[qb].resp.status = 200
       /\ sq[qb].resp.cached
       /\ sq[qb].resp.result = sq[qa].result_json
       /\ sq[qb].calls = 0

\* the fingerprint carries no owner: when the first owner's request was
\* answered with cached = false, the other owner's is served that result
SharedAcrossOwnersWhenAnswered ==
  \A qa \in QueryIds, qb \in QueryIds :
    ( /\ sq[qb].pc # "idle" /\ sq[qb].after = qa
      /\ SameQuestionOwnImages(qa, qb)
      /\ sq[qa].resp.status = 200 /\ ~sq[qa].resp.cached )
    => /\ sq[qb].pc = "done"
       /\ sq[qb].resp.status = 200
       /\ sq[qb].resp.cached
       /\ sq[qb].resp.result = sq[qa].resp.result
       /\ sq[qb].calls = 0

\* the tables InitShared starts from, as two uploads leave them
SharedTablesReached ==
  images = SharedImages /\ blobs = SharedBlobs /\ nextUuid = 5

\* ------------------------------------------------------------ stored images
\* no two rows share a storage key
UniqueStorageKeys ==
  \A i1 \in images, i2 \in images : i1.object_key = i2.object_key => i1 = i2

\* two finished uploads of the same bytes by two owners have left a row for
\* each owner, under two storage keys
TwoOwnersTwoKeys ==
  \A r1 \in UploadIds, r2 \in UploadIds :
    ( /\ up[r1].pc = "done" /\ up[r2].pc = "done"
      /\ up[r1].user # up[r2].user
      /\ up[r1].data = up[r2].data /\ up[r1].data # "" )
    => \E i1 \in images, i2 \in images :
         /\ i1.user_id = up[r1].user /\ i2.user_id = up[r2].user
         /\ i1.content_hash = hash_bytes(up[r1].data)
         /\ i2.content_hash = hash_bytes(up[r2].data)
         /\ i1.object_key # i2.object_key

\* a step leaves every row its storage key, its owner and its content hash
RowsKeepKeyOwnerHash ==
  \A i \in images :
    \E j \in images' :
      /\ j.id = i.id /\ j.object_key = i.object_key
      /\ j.user_id = i.user_id /\ j.content_hash = i.content_hash

\* C19: no two image rows ever share a storage key, a row never changes its
\* storage key, owner or content hash, and the same bytes uploaded by two
\* owners give two rows with two distinct storage keys.
C19_StorageKeysUniqueAndFixed ==
  /\ [](UniqueStorageKeys /\ TwoOwnersTwoKeys)
  /\ [][RowsKeepKeyOwnerHash]_vars

\* two owners have uploaded the same bytes and each got a row of the own
C19_Witness ==
  \E r1 \in UploadIds, r2 \in UploadIds :
    /\ up[r1].user # up[r2].user /\ up[r1].data = up[r2].data
    /\ up[r1].inserted /\ up[r2].inserted
    /\ up[r1].resp.status = 200 /\ up[r2].resp.status = 200
    /\ up[r1].resp.object_key # up[r2].resp.object_key
    /\ Cardinality(images) = 2 /\ Cardinality(blobs) >= 2

\* C20: every image row's storage key names a blob already written with
\* the bytes the row's content hash was taken from; blobs no row points at
\* may exist.
C20_EveryRowHasItsBlob ==
  \A i \in images :
    \E b \in blobs :
      /\ b.object_key = i.object_key
      /\ hash_bytes(b.data) = i.content_hash

\* two uploads of the same bytes by one owner raced: the winner's row names
\* its blob, the loser's blob is left with no row pointing at it
C20_Witness ==
  \E r1 \in UploadIds, r2 \in UploadIds :
    /\ up[r1].inserted /\ up[r2].conflict
    /\ \E i \in images, b \in blobs :
         i.object_key = up[r1].object_key /\ b.object_key = i.object_key
    /\ \E b \in blobs :
         /\ b.object_key = up[r2].object_key
         /\ \A i \in images : i.object_key # b.object_key

====
